---- MODULE Spec2Model ----
(***************************************************************************)
(* A model of mapserver's tile renderer (tilerenderer/renderer.go).        *)
(*                                                                         *)
(* TileRenderer.Render serves an encoded tile from the tile database or    *)
(* has TileRenderer.RenderImage produce it.  RenderImage looks the tile up *)
(* again, gives up on a miss when cachedOnly is set, validates layer and   *)
(* zoom, renders zoom 13 through the mapblock renderer and composes zoom   *)
(* 1..12 from the four tiles one zoom level finer, storing the composite.  *)
(*                                                                         *)
(* A call is modelled step by step, one action per access to the tile      *)
(* database or the mapblock renderer, with the Go call stack of nested     *)
(* RenderImage calls kept explicitly.  The collaborators that live outside *)
(* renderer.go (tiledb, coords, mapblockrenderer, the png codec, imaging)  *)
(* are modelled by their contracts; their failures are choices of the      *)
(* environment.                                                            *)
(***************************************************************************)
EXTENDS Integers, Sequences, FiniteSets, TLC

VARIABLES
    layers,   \* tr.layers: the configured layer list
    tdb,      \* tr.tdb: the stored tiles, a set of [Pos, Data]
    req,      \* per caller: the call in progress (entry point, address, result)
    stack,    \* per caller: the nested RenderImage calls, outermost first
    log,      \* per caller: what the call in progress did, in order
    prev,     \* per caller: the call that finished before the one in progress
    world,    \* the zoom-13 tiles <<x, y>> under which the world holds map blocks
    calls,    \* number of top-level calls started so far
    faults    \* number of failures of the tile database and the mapblock renderer so far

vars == <<layers, tdb, req, stack, log, prev, world, calls, faults>>

-----------------------------------------------------------------------------
(* Bounds of the model *)

\* top-level calls in one behaviour
MaxCalls == 2

\* how many zoom levels below 12 are requested besides the boundary zoom 1
CoarseLevels == 1

\* failures of the tile database and the mapblock renderer in one behaviour
MaxFaults == 1

\* callers; the sequential specification runs caller 1 only
Procs == {1, 2}

-----------------------------------------------------------------------------
(* Program constants *)

\* renderer.go:117  tc.Zoom > 13 || tc.Zoom < 1
MinZoom == 1
MaxZoom == 13

\* renderer.go:133  recursiveCachedOnly := tc.Zoom < 12
FreshChildZoom == 12

-----------------------------------------------------------------------------
(* Values *)

NoErr == "nil"

ErrNoLayer == "No layer found"
ErrInvalidZoom == "Invalid zoom"
ErrTileDb == "tiledb error"
ErrDecode == "png decode error"
ErrMapblock == "mapblock render error"

\* Go's nil for *image.NRGBA, *tiledb.Tile, []byte and *layer.Layer
Nil == [kind |-> "nil"]

\* (value, error) pairs as Go returns them
Ok(v) == [err |-> NoErr, val |-> v]
Fail(e) == [err |-> e, val |-> Nil]

\* coords.TileCoords
TileCoords(l, z, x, y) == [LayerId |-> l, Zoom |-> z, X |-> x, Y |-> y]

\* tc.GetZoomedQuadrantsFromTile(): UpperLeft, UpperRight, LowerLeft, LowerRight
GetZoomedQuadrantsFromTile(tc) ==
    << TileCoords(tc.LayerId, tc.Zoom + 1, 2 * tc.X,     2 * tc.Y),
       TileCoords(tc.LayerId, tc.Zoom + 1, 2 * tc.X + 1, 2 * tc.Y),
       TileCoords(tc.LayerId, tc.Zoom + 1, 2 * tc.X,     2 * tc.Y + 1),
       TileCoords(tc.LayerId, tc.Zoom + 1, 2 * tc.X + 1, 2 * tc.Y + 1) >>

\* coords.GetMapBlockRangeFromTile(tc, 0): the volume under the tile, with
\* the vertical extent still at its default
GetMapBlockRangeFromTile(tc) ==
    [Pos1 |-> [tile |-> <<tc.Zoom, tc.X, tc.Y>>, Y |-> 0],
     Pos2 |-> [tile |-> <<tc.Zoom, tc.X, tc.Y>>, Y |-> 0]]

\* a transparent quadrant of a freshly allocated image
Blank == [kind |-> "blank"]

\* image.NewNRGBA(256 x 256): all four quadrants transparent
NewNRGBA == [kind |-> "nrgba", ul |-> Blank, ur |-> Blank, ll |-> Blank, lr |-> Blank]

\* a 256 x 256 image found in the tile database that this renderer did not compose
StoredImage(n) == [kind |-> "stored", id |-> n]

\* the raster the mapblock renderer produces for a volume
MapblockImage(pos1, pos2) == [kind |-> "mapblocks", pos1 |-> pos1, pos2 |-> pos2]

\* imaging.Resize(img, 128, 128, imaging.Lanczos)
Resize(img) == [kind |-> "resized", of |-> img]

\* png.Encode / png.Decode: lossless for NRGBA; bytes that are no PNG fail
Encode(img) == [kind |-> "png", img |-> img]
Garbage == [kind |-> "garbage"]
Decode(data) == IF data.kind = "png" THEN Ok(data.img) ELSE Fail(ErrDecode)

\* tiledb: at most one tile per position
GetTile(db, tc) ==
    IF \E t \in db : t.Pos = tc THEN CHOOSE t \in db : t.Pos = tc ELSE Nil

SetTile(db, tile) == {t \in db : t.Pos # tile.Pos} \cup {tile}

-----------------------------------------------------------------------------
(* What a call did: one event per tile database access, validation step,   *)
(* mapblock renderer call, nested RenderImage call and start of the        *)
(* compose step.  depth is 0 for Render itself and n for the n-th nested   *)
(* RenderImage call.                                                       *)

Event(op, tc, depth, out, arg) ==
    [op |-> op, tc |-> tc, depth |-> depth, out |-> out, arg |-> arg]

\* the events a decision made of (op, out) pairs leaves behind
Events(tc, depth, steps) ==
    [i \in 1..Len(steps) |-> Event(steps[i][1], tc, depth, steps[i][2], Nil)]

-----------------------------------------------------------------------------
(* TileRenderer.RenderImage, renderer.go:74-195 *)

\* renderer.go:105-111.  The build is Go 1.16 (docker-compose.yml): the range
\* variable l is one variable for the whole loop, so after the loop &l points
\* at the last element of tr.layers whenever some element matched.
FindLayer(ls, id) ==
    IF \E i \in 1..Len(ls) : ls[i].Id = id THEN ls[Len(ls)] ELSE Nil

\* a variant of InvalidZoom: both comparisons off by one
InvalidZoom_OffByOne(tc) == tc.Zoom > MaxZoom + 1 \/ tc.Zoom < MinZoom - 1

\* renderer.go:117
InvalidZoom(tc) == tc.Zoom > MaxZoom \/ tc.Zoom < MinZoom

\* renderer.go:121
IsMapblockZoom(tc) == tc.Zoom = MaxZoom

\* a variant of RecursiveCachedOnly: quadrants are never cache-only
RecursiveCachedOnly_Never(tc) == FALSE

\* a variant of RecursiveCachedOnly: the comparison is the wrong way round
RecursiveCachedOnly_Inverted(tc) == tc.Zoom >= FreshChildZoom

\* a variant of RecursiveCachedOnly: fresh quadrants one zoom level earlier
RecursiveCachedOnly_OneCoarser(tc) == tc.Zoom < FreshChildZoom - 1

\* renderer.go:133
RecursiveCachedOnly(tc) == tc.Zoom < FreshChildZoom

\* a variant of FromCache: a tile that does not decode counts as an empty one
FromCache_BadIsEmpty(cachedtile) ==
    IF Decode(cachedtile.Data).err # NoErr THEN Ok(Nil) ELSE Decode(cachedtile.Data)

\* renderer.go:81-97: decode the stored bytes and draw them onto a fresh
\* 256 x 256 image (a copy, for an image of that size)
FromCache(cachedtile) == Decode(cachedtile.Data)

\* a variant of RenderImageHead: layer and zoom are not checked
RenderImageHead_Unchecked(tc, cachedOnly, got, ls) ==
    LET layer == FindLayer(ls, tc.LayerId)
        R(ret, steps) == [next |-> "return", ret |-> ret, layer |-> Nil, steps |-> steps]
    IN  IF got.err # NoErr
          THEN R(Fail(got.err), << <<"GetTile", "err">> >>)
        ELSE IF got.val # Nil
          THEN LET img == FromCache(got.val)
               IN  R(img, << <<"GetTile", "hit">>,
                             <<"Decode", IF img.err = NoErr THEN "ok" ELSE "bad">> >>)
        ELSE IF cachedOnly
          THEN R(Ok(Nil), << <<"GetTile", "miss">> >>)
        ELSE [next |-> IF IsMapblockZoom(tc) THEN "leaf" ELSE "quads",
              ret |-> Ok(Nil), layer |-> IF layer = Nil THEN ls[1] ELSE layer,
              steps |-> << <<"GetTile", "miss">> >>]

\* a variant of RenderImageHead: layer and zoom are checked before cachedOnly
RenderImageHead_CheckedFirst(tc, cachedOnly, got, ls) ==
    LET layer == FindLayer(ls, tc.LayerId)
        R(ret, steps) == [next |-> "return", ret |-> ret, layer |-> Nil, steps |-> steps]
    IN  IF got.err # NoErr
          THEN R(Fail(got.err), << <<"GetTile", "err">> >>)
        ELSE IF got.val # Nil
          THEN LET img == FromCache(got.val)
               IN  R(img, << <<"GetTile", "hit">>,
                             <<"Decode", IF img.err = NoErr THEN "ok" ELSE "bad">> >>)
        ELSE IF layer = Nil
          THEN R(Fail(ErrNoLayer), << <<"GetTile", "miss">>, <<"LayerCheck", "reject">> >>)
        ELSE IF InvalidZoom(tc)
          THEN R(Fail(ErrInvalidZoom),
                 << <<"GetTile", "miss">>, <<"LayerCheck", "ok">>, <<"ZoomCheck", "reject">> >>)
        ELSE IF cachedOnly
          THEN R(Ok(Nil), << <<"GetTile", "miss">>, <<"LayerCheck", "ok">>, <<"ZoomCheck", "ok">> >>)
        ELSE [next |-> IF IsMapblockZoom(tc) THEN "leaf" ELSE "quads",
              ret |-> Ok(Nil), layer |-> layer,
              steps |-> << <<"GetTile", "miss">>, <<"LayerCheck", "ok">>, <<"ZoomCheck", "ok">> >>]

\* renderer.go:76-133: from the lookup to the decision what to do next.
\* got is what tr.tdb.GetTile returned.  next is "return" (with ret), "leaf"
\* (render the mapblocks) or "quads" (resolve the four quadrants).
RenderImageHead(tc, cachedOnly, got, ls) ==
    LET layer == FindLayer(ls, tc.LayerId)
        R(ret, steps) == [next |-> "return", ret |-> ret, layer |-> Nil, steps |-> steps]
    IN  IF got.err # NoErr
          THEN R(Fail(got.err), << <<"GetTile", "err">> >>)
        ELSE IF got.val # Nil
          THEN LET img == FromCache(got.val)
               IN  R(img, << <<"GetTile", "hit">>,
                             <<"Decode", IF img.err = NoErr THEN "ok" ELSE "bad">> >>)
        ELSE IF cachedOnly
          THEN R(Ok(Nil), << <<"GetTile", "miss">> >>)
        ELSE IF layer = Nil
          THEN R(Fail(ErrNoLayer), << <<"GetTile", "miss">>, <<"LayerCheck", "reject">> >>)
        ELSE IF InvalidZoom(tc)
          THEN R(Fail(ErrInvalidZoom),
                 << <<"GetTile", "miss">>, <<"LayerCheck", "ok">>, <<"ZoomCheck", "reject">> >>)
        ELSE [next |-> IF IsMapblockZoom(tc) THEN "leaf" ELSE "quads",
              ret |-> Ok(Nil), layer |-> layer,
              steps |-> << <<"GetTile", "miss">>, <<"LayerCheck", "ok">>, <<"ZoomCheck", "ok">> >>]

\* a variant of Compose: the lower right quadrant is drawn where the lower left one belongs
Compose_Misplaced(upperLeft, upperRight, lowerLeft, lowerRight) ==
    [NewNRGBA EXCEPT
        !.ul = IF upperLeft  # Nil THEN Resize(upperLeft)  ELSE @,
        !.ur = IF upperRight # Nil THEN Resize(upperRight) ELSE @,
        !.ll = IF lowerRight # Nil THEN Resize(lowerRight)
               ELSE IF lowerLeft # Nil THEN Resize(lowerLeft) ELSE @]

\* a variant of Compose: the rectangles of UpperRight and LowerLeft have x
\* and y exchanged
Compose_Transposed(upperLeft, upperRight, lowerLeft, lowerRight) ==
    [NewNRGBA EXCEPT
        !.ul = IF upperLeft  # Nil THEN Resize(upperLeft)  ELSE @,
        !.ll = IF upperRight # Nil THEN Resize(upperRight) ELSE @,
        !.ur = IF lowerLeft  # Nil THEN Resize(lowerLeft)  ELSE @,
        !.lr = IF lowerRight # Nil THEN Resize(lowerRight) ELSE @]

\* renderer.go:155-184: the four quadrants of the composite
Compose(upperLeft, upperRight, lowerLeft, lowerRight) ==
    [NewNRGBA EXCEPT
        !.ul = IF upperLeft  # Nil THEN Resize(upperLeft)  ELSE @,
        !.ur = IF upperRight # Nil THEN Resize(upperRight) ELSE @,
        !.ll = IF lowerLeft  # Nil THEN Resize(lowerLeft)  ELSE @,
        !.lr = IF lowerRight # Nil THEN Resize(lowerRight) ELSE @]

\* a variant of ComposedTile: the buffer is stored without the image encoded in it
ComposedTile_Unencoded(tc, img) ==
    [Pos |-> tc, Data |-> Garbage]

\* a variant of ComposedTile: the tile carries the address of the first quadrant
ComposedTile_AtFirstQuadrant(tc, img) ==
    [Pos |-> GetZoomedQuadrantsFromTile(tc)[1],
     Data |-> IF img # Nil THEN Encode(img) ELSE Garbage]

\* renderer.go:186-191: the tile stored for a composite (Mtime left out)
ComposedTile(tc, img) ==
    [Pos |-> tc, Data |-> IF img # Nil THEN Encode(img) ELSE Garbage]

\* a variant of StoreComposite: a composite with four blank quadrants is not stored
StoreComposite_SkipBlank(db, tile, depth, ioerr) ==
    IF tile.Data = Encode(NewNRGBA)
      THEN [tdb |-> db, events |-> <<>>]
      ELSE [tdb |-> IF ioerr THEN db ELSE SetTile(db, tile),
            events |-> << Event("SetTile", tile.Pos, depth, IF ioerr THEN "err" ELSE "ok", tile.Data) >>]

\* a variant of StoreComposite: a tile is written only where none is stored
StoreComposite_KeepFirst(db, tile, depth, ioerr) ==
    [tdb |-> IF ioerr \/ (\E t \in db : t.Pos = tile.Pos) THEN db ELSE SetTile(db, tile),
     events |-> << Event("SetTile", tile.Pos, depth, IF ioerr THEN "err" ELSE "ok", tile.Data) >>]

\* renderer.go:191-192: the tile is handed to tr.tdb.SetTile, whose error
\* (ioerr: it failed and stored nothing) is not looked at
StoreComposite(db, tile, depth, ioerr) ==
    [tdb |-> IF ioerr THEN db ELSE SetTile(db, tile),
     events |-> << Event("SetTile", tile.Pos, depth, IF ioerr THEN "err" ELSE "ok", tile.Data) >>]

\* a variant of ComposeReturn: a failed SetTile fails the call
ComposeReturn_WriteFatal(img, ioerr) ==
    IF ioerr THEN Fail(ErrTileDb) ELSE Ok(img)

\* renderer.go:192-194: whatever SetTile answered, the composite is returned
\* with a nil error
ComposeReturn(img, ioerr) ==
    Ok(img)

\* renderer.go:123-125: the volume handed to the mapblock renderer
MapblockRange(tc, layer) ==
    LET mbr == GetMapBlockRangeFromTile(tc)
    IN  [mbr EXCEPT !.Pos1.Y = layer.From, !.Pos2.Y = layer.To]

\* one RenderImage call on the Go stack
Frame(tc, cachedOnly) ==
    [tc |-> tc, cachedOnly |-> cachedOnly, pc |-> "GetTile", layer |-> Nil, quads |-> <<>>]

Top(stk) == stk[Len(stk)]
Pop(stk) == SubSeq(stk, 1, Len(stk) - 1)

\* the event of entering a nested RenderImage call
CallEvent(f, depth) == Event("RenderImage", f.tc, depth, "call", f.cachedOnly)

\* a variant of Deliver: a caller goes on past a quadrant's error as if the
\* quadrant were empty
Deliver_ErrorsDropped(stk, ret) ==
    IF stk = <<>>
      THEN [stack |-> stk, done |-> TRUE, ret |-> ret, events |-> <<>>]
    ELSE LET caller == Top(stk)
             quads == Append(caller.quads, ret.val)
             next == Frame(GetZoomedQuadrantsFromTile(caller.tc)[Len(quads) + 1],
                           RecursiveCachedOnly(caller.tc))
         IN  IF Len(quads) < 4
               THEN [stack |-> Append(Append(Pop(stk), [caller EXCEPT !.quads = quads]), next),
                     done |-> FALSE, ret |-> ret,
                     events |-> << CallEvent(next, Len(stk) + 1) >>]
               ELSE [stack |-> Append(Pop(stk), [caller EXCEPT !.quads = quads, !.pc = "Compose"]),
                     done |-> FALSE, ret |-> ret,
                     events |-> << Event("Compose", caller.tc, Len(stk), "begin", Nil) >>]

\* renderer.go:135-153: a RenderImage call returns ret to the frames below
\* it (stk, the caller on top).  An error makes the caller return it too;
\* otherwise the caller keeps the image and resolves its next quadrant, or
\* goes on to compose once it has all four.
RECURSIVE Deliver(_, _)
Deliver(stk, ret) ==
    IF stk = <<>>
      THEN [stack |-> stk, done |-> TRUE, ret |-> ret, events |-> <<>>]
    ELSE IF ret.err # NoErr
      THEN Deliver(Pop(stk), Fail(ret.err))
    ELSE LET caller == Top(stk)
             quads == Append(caller.quads, ret.val)
             next == Frame(GetZoomedQuadrantsFromTile(caller.tc)[Len(quads) + 1],
                           RecursiveCachedOnly(caller.tc))
         IN  IF Len(quads) < 4
               THEN [stack |-> Append(Append(Pop(stk), [caller EXCEPT !.quads = quads]), next),
                     done |-> FALSE, ret |-> ret,
                     events |-> << CallEvent(next, Len(stk) + 1) >>]
               ELSE [stack |-> Append(Pop(stk), [caller EXCEPT !.quads = quads, !.pc = "Compose"]),
                     done |-> FALSE, ret |-> ret,
                     events |-> << Event("Compose", caller.tc, Len(stk), "begin", Nil) >>]

-----------------------------------------------------------------------------
(* TileRenderer.Render, renderer.go:44-72 *)

\* a variant of RenderHit: the stored tile is decoded and encoded again
RenderHit_Reencoded(tile) ==
    IF Decode(tile.Data).err # NoErr THEN Fail(ErrDecode) ELSE Ok(Encode(Decode(tile.Data).val))

\* renderer.go:71
RenderHit(tile) == Ok(tile.Data)

\* a variant of RenderEncode: an image with nothing drawn on it counts as empty
RenderEncode_BlankIsEmpty(ret) ==
    IF ret.err # NoErr THEN Fail(ret.err)
    ELSE IF ret.val = Nil \/ ret.val = NewNRGBA THEN Ok(Nil)
    ELSE Ok(Encode(ret.val))

\* renderer.go:56-68: what Render makes of RenderImage's return
RenderEncode(ret) ==
    IF ret.err # NoErr THEN Fail(ret.err)
    ELSE IF ret.val = Nil THEN Ok(Nil)
    ELSE Ok(Encode(ret.val))

-----------------------------------------------------------------------------
(* The states the renderer starts in *)

\* layer.Layer values as the configuration supplies them
Layer(id, from, to) == [Id |-> id, From |-> from, To |-> to]

LayerLists ==
    { << Layer(0, -1, 10) >>,
      << Layer(0, -1, 10), Layer(1, 11, 24) >> }

\* the layer ids and zooms callers ask for: zooms 0 and 14 are out of range,
\* 1 is the coarsest, 13 the mapblock level
ReqLayerIds == {0, 1}
ReqZooms == {MinZoom - 1, MinZoom} \cup ((FreshChildZoom - CoarseLevels)..(MaxZoom + 1))
ReqCoords == {TileCoords(l, z, 0, 0) : l \in ReqLayerIds, z \in ReqZooms}

\* the requested address of a layer at a zoom, and its quadrants
At(l, z) == TileCoords(l, z, 0, 0)
Quad(l, z, i) == GetZoomedQuadrantsFromTile(At(l, z))[i]

StoredTile(tc, n) == [Pos |-> tc, Data |-> Encode(StoredImage(n))]
GarbageTile(tc) == [Pos |-> tc, Data |-> Garbage]

\* what the tile database holds at the start, the same for every layer id:
\* nothing; or a warmed pyramid (every tile of zoom 12 and 13 under the
\* zoom-11 address, and tiles at the two out-of-range zooms); or tiles that
\* do not decode (at zoom 1, and next to a good one under zoom 11 and 12);
\* or a single tile of zoom 13
InitialTiles ==
    { {},
      UNION { {StoredTile(At(l, MinZoom - 1), 0), StoredTile(At(l, MaxZoom + 1), 14)}
              \cup {StoredTile(Quad(l, FreshChildZoom - 1, i), i) : i \in 1..4}
              \cup {StoredTile(Quad(l, FreshChildZoom, i), 4 + i) : i \in 1..4}
              : l \in ReqLayerIds },
      UNION { {GarbageTile(At(l, MinZoom)),
               StoredTile(Quad(l, FreshChildZoom - 1, 2), 2),
               GarbageTile(Quad(l, FreshChildZoom - 1, 3)),
               StoredTile(Quad(l, FreshChildZoom, 1), 5),
               GarbageTile(Quad(l, FreshChildZoom, 2))}
              : l \in ReqLayerIds },
      UNION { {StoredTile(Quad(l, FreshChildZoom, 4), 8)} : l \in ReqLayerIds } }

\* where the world holds map blocks
Worlds == { {<<0, 0>>, <<1, 1>>}, {<<1, 0>>, <<0, 1>>} }

\* a call: where it stands, how it was entered, what it asks for, what the
\* tile database held when it began, and what it returned
NoCall ==
    [pc |-> "idle", entry |-> "none", tc |-> Nil, cachedOnly |-> FALSE,
     before |-> {}, result |-> Nil]

Init ==
    /\ layers \in LayerLists
    /\ tdb \in InitialTiles
    /\ world \in Worlds
    /\ req = [p \in Procs |-> NoCall]
    /\ stack = [p \in Procs |-> <<>>]
    /\ log = [p \in Procs |-> <<>>]
    /\ prev = [p \in Procs |-> [call |-> NoCall, log |-> <<>>]]
    /\ calls = 0
    /\ faults = 0

-----------------------------------------------------------------------------
(* Actions *)

\* A caller may start a call when it has none in progress.  The calls of one
\* behaviour ask for tiles of one layer id: tiles of different layer ids
\* share no tile database entry.
CanCall(p, tc) ==
    /\ req[p].pc \in {"idle", "done"}
    /\ calls < MaxCalls
    /\ \A q \in Procs : req[q].entry # "none" => req[q].tc.LayerId = tc.LayerId

\* starting a call files the finished one
Begin(p) ==
    /\ calls' = calls + 1
    /\ prev' = [prev EXCEPT ![p] = [call |-> req[p], log |-> log[p]]]

\* whether a collaborator may fail at this step
MayFail == IF faults < MaxFaults THEN BOOLEAN ELSE {FALSE}
Failed(f) == faults' = IF f THEN faults + 1 ELSE faults

\* what tr.tdb.GetTile answers: the stored tile or nil, or an I/O error
Lookup(tc, ioerr) == IF ioerr THEN Fail(ErrTileDb) ELSE Ok(GetTile(tdb, tc))

\* what tr.mapblockrenderer.Render answers for a volume: an image of its
\* map blocks, nil where the world holds none, or an error
RenderMapBlockRange(mbr, failed) ==
    IF failed THEN Fail(ErrMapblock)
    ELSE IF <<mbr.Pos1.tile[2], mbr.Pos1.tile[3]>> \in world
      THEN Ok(MapblockImage(mbr.Pos1, mbr.Pos2))
    ELSE Ok(Nil)

\* the call of caller p returns ret at its outermost level
Finished(p, ret) ==
    [req[p] EXCEPT !.pc = "done",
                   !.result = IF req[p].entry = "Render" THEN RenderEncode(ret) ELSE ret]

\* the RenderImage call on top of p's stack returns ret, after events
Return(p, ret, events) ==
    LET d == Deliver(Pop(stack[p]), ret)
    IN  /\ stack' = [stack EXCEPT ![p] = d.stack]
        /\ log' = [log EXCEPT ![p] = @ \o events \o d.events]
        /\ req' = IF d.done THEN [req EXCEPT ![p] = Finished(p, d.ret)] ELSE req

\* renderer.go:44-54,71: Render looks the tile up, returns its bytes on a
\* hit and calls RenderImage(tc, false) on a miss
Render(p, tc) ==
    /\ CanCall(p, tc)
    /\ Begin(p)
    /\ \E ioerr \in MayFail :
         LET got == Lookup(tc, ioerr)
             call == [pc |-> "running", entry |-> "Render", tc |-> tc,
                      cachedOnly |-> FALSE, before |-> tdb, result |-> Nil]
             out == IF got.err # NoErr THEN "err" ELSE IF got.val = Nil THEN "miss" ELSE "hit"
             f == Frame(tc, FALSE)
         IN  /\ Failed(ioerr)
             /\ req' = [req EXCEPT ![p] =
                         IF got.err # NoErr
                           THEN [call EXCEPT !.pc = "done", !.result = Fail(got.err)]
                         ELSE IF got.val # Nil
                           THEN [call EXCEPT !.pc = "done", !.result = RenderHit(got.val)]
                         ELSE call]
             /\ stack' = [stack EXCEPT ![p] = IF out = "miss" THEN << f >> ELSE <<>>]
             /\ log' = [log EXCEPT ![p] =
                         << Event("GetTile", tc, 0, out, Nil) >>
                         \o (IF out = "miss" THEN << CallEvent(f, 1) >> ELSE <<>>)]
    /\ UNCHANGED <<layers, tdb, world>>

\* a caller other than Render enters RenderImage(tc, cachedOnly)
CallRenderImage(p, tc, cachedOnly) ==
    /\ CanCall(p, tc)
    /\ Begin(p)
    /\ req' = [req EXCEPT ![p] = [pc |-> "running", entry |-> "RenderImage", tc |-> tc,
                                  cachedOnly |-> cachedOnly, before |-> tdb, result |-> Nil]]
    /\ stack' = [stack EXCEPT ![p] = << Frame(tc, cachedOnly) >>]
    /\ log' = [log EXCEPT ![p] = << CallEvent(Frame(tc, cachedOnly), 1) >>]
    /\ UNCHANGED <<layers, tdb, world, faults>>

\* renderer.go:76-135: the lookup of the innermost RenderImage call and what
\* follows from it without further I/O
RenderImageGetTile(p) ==
    /\ req[p].pc = "running"
    /\ stack[p] # <<>>
    /\ Top(stack[p]).pc = "GetTile"
    /\ \E ioerr \in MayFail :
         LET f == Top(stack[p])
             depth == Len(stack[p])
             h == RenderImageHead(f.tc, f.cachedOnly, Lookup(f.tc, ioerr), layers)
             events == Events(f.tc, depth, h.steps)
             first == Frame(GetZoomedQuadrantsFromTile(f.tc)[1], RecursiveCachedOnly(f.tc))
         IN  /\ Failed(ioerr)
             /\ CASE h.next = "return" -> Return(p, h.ret, events)
                  [] h.next = "leaf" ->
                       /\ stack' = [stack EXCEPT ![p] =
                                      Append(Pop(@), [f EXCEPT !.pc = "Leaf", !.layer = h.layer])]
                       /\ log' = [log EXCEPT ![p] = @ \o events]
                       /\ req' = req
                  [] h.next = "quads" ->
                       /\ stack' = [stack EXCEPT ![p] =
                                      Append(Append(Pop(@), [f EXCEPT !.pc = "Quads", !.layer = h.layer]),
                                             first)]
                       /\ log' = [log EXCEPT ![p] = @ \o events \o << CallEvent(first, depth + 1) >>]
                       /\ req' = req
    /\ UNCHANGED <<layers, tdb, prev, world, calls>>

\* renderer.go:121-128: zoom 13 is rendered by the mapblock renderer; what
\* it answers is returned and nothing is stored
RenderMapblocks(p) ==
    /\ req[p].pc = "running"
    /\ stack[p] # <<>>
    /\ Top(stack[p]).pc = "Leaf"
    /\ \E failed \in MayFail :
         LET f == Top(stack[p])
             mbr == MapblockRange(f.tc, f.layer)
             ret == RenderMapBlockRange(mbr, failed)
             out == IF ret.err # NoErr THEN "err" ELSE IF ret.val = Nil THEN "nil" ELSE "img"
         IN  /\ Failed(failed)
             /\ Return(p, ret, << Event("Mapblocks", f.tc, Len(stack[p]), out, mbr) >>)
    /\ UNCHANGED <<layers, tdb, prev, world, calls>>

\* renderer.go:155-194: with its four quadrants resolved, a call at zoom
\* 1..12 composes the tile, stores it (ignoring SetTile's error) and returns it
ComposeAndStore(p) ==
    /\ req[p].pc = "running"
    /\ stack[p] # <<>>
    /\ Top(stack[p]).pc = "Compose"
    /\ \E ioerr \in MayFail :
         LET f == Top(stack[p])
             img == Compose(f.quads[1], f.quads[2], f.quads[3], f.quads[4])
             tile == ComposedTile(f.tc, img)
             st == StoreComposite(tdb, tile, Len(stack[p]), ioerr)
         IN  /\ Failed(ioerr)
             /\ tdb' = st.tdb
             /\ Return(p, ComposeReturn(img, ioerr), st.events)
    /\ UNCHANGED <<layers, prev, world, calls>>

\* RenderImage as callers other than Render use it
DirectModes == {TRUE}

Step(p) ==
    \/ \E tc \in ReqCoords : Render(p, tc)
    \/ \E tc \in ReqCoords, cachedOnly \in DirectModes : CallRenderImage(p, tc, cachedOnly)
    \/ RenderImageGetTile(p)
    \/ RenderMapblocks(p)
    \/ ComposeAndStore(p)

\* calls one after the other: a single caller
Next == Step(1)

Spec == Init /\ [][Next]_vars

\* Render called by two callers at once for one address, each once, as the
\* web server's request handlers do; the callers share tr.tdb and the
\* mapblock renderer
SameAddress(p, tc) ==
    /\ req[p].pc = "idle"
    /\ \A q \in Procs \ {p} : req[q].entry # "none" => req[q].tc = tc

StepConc(p) ==
    \/ \E tc \in ReqCoords : SameAddress(p, tc) /\ Render(p, tc)
    \/ RenderImageGetTile(p)
    \/ RenderMapblocks(p)
    \/ ComposeAndStore(p)

\* the world the mapblock renderer reads is edited while requests are
\* served: the blocks that were there are gone and others are there instead
WorldChanges ==
    /\ \E p \in Procs : req[p].pc = "running"
    /\ world = {<<0, 0>>, <<1, 1>>}
    /\ world' = {<<1, 0>>, <<0, 1>>}
    /\ UNCHANGED <<layers, tdb, req, stack, log, prev, calls, faults>>

NextConc ==
    \/ \E p \in Procs : StepConc(p)
    \/ WorldChanges

SpecConc == Init /\ [][NextConc]_vars

-----------------------------------------------------------------------------
(* Vocabulary of the properties *)

Done(p) == req[p].pc = "done"

\* the positions of the events of one kind in a log
OpsAt(l, op) == {i \in 1..Len(l) : l[i].op = op}

\* no collaborator (tile database, mapblock renderer) failed during the call
NoFault(l) == \A i \in 1..Len(l) : l[i].out # "err"

\* every lookup of the call was answered by the tile database
Answered(l) == \A i \in OpsAt(l, "GetTile") : l[i].out # "err"

\* the layer id is one of the configured layers
Registered(id) == \E i \in 1..Len(layers) : layers[i].Id = id

Has(db, tc) == \E t \in db : t.Pos = tc

\* caller p has finished a Render call that followed a Render call for the
\* same address
RenderedTwice(p) ==
    /\ Done(p)
    /\ req[p].entry = "Render"
    /\ prev[p].call.entry = "Render"
    /\ prev[p].call.tc = req[p].tc

-----------------------------------------------------------------------------
(* C1: idempotence of Render *)

\* C1 as stated: two Render calls in a row for an address of zoom 1..13,
\* with no collaborator failing, return the same and the second one does not
\* call the mapblock renderer.
C1_Original ==
    \A p \in Procs :
        ( /\ RenderedTwice(p)
          /\ req[p].tc.Zoom \in MinZoom..MaxZoom
          /\ NoFault(prev[p].log) /\ NoFault(log[p]) )
        => /\ req[p].result = prev[p].call.result
           /\ OpsAt(log[p], "Mapblocks") = {}

\* C1, amended: when Render is called twice in a row for an address and the
\* first call returned without error, then (a) if the second call finds the
\* tile stored, it returns what the first call returned, byte for byte, and
\* calls no mapblock renderer; and (b) at zoom 1..12 the second call does find
\* the tile stored, unless the first call's SetTile or the second call's
\* GetTile failed.  (A zoom-13 tile is not stored by the first call.)
C1_Idempotence ==
    \A p \in Procs :
        (RenderedTwice(p) /\ prev[p].call.result.err = NoErr)
        => /\ log[p][1].out = "hit"
              => /\ req[p].result = prev[p].call.result
                 /\ OpsAt(log[p], "Mapblocks") = {}
           /\ ( /\ req[p].tc.Zoom \in MinZoom..(MaxZoom - 1)
                /\ NoFault(prev[p].log)
                /\ log[p][1].out # "err" )
              => log[p][1].out = "hit"

\* the first call rendered map blocks and composed a zoom-12 tile, the second
\* call was served from the tile database
C1_Witness ==
    \E p \in Procs :
        /\ RenderedTwice(p)
        /\ req[p].tc.Zoom = FreshChildZoom
        /\ \E i \in OpsAt(prev[p].log, "Mapblocks") : prev[p].log[i].out = "img"
        /\ \E i \in OpsAt(prev[p].log, "SetTile") : prev[p].log[i].out = "ok"
        /\ log[p][1].out = "hit"
        /\ req[p].result = prev[p].call.result

-----------------------------------------------------------------------------
(* C2: a coarse tile requested from an empty tile database *)

\* caller p has finished a Render call for a registered layer at zoom 1..11
\* that began with nothing stored and whose lookups were answered
ColdCoarse(p) ==
    /\ Done(p)
    /\ req[p].entry = "Render"
    /\ req[p].before = {}
    /\ Registered(req[p].tc.LayerId)
    /\ req[p].tc.Zoom \in MinZoom..(FreshChildZoom - 1)
    /\ Answered(log[p])

\* C2 as stated: such a call returns the empty result: no bytes, no error.
C2_Original ==
    \A p \in Procs : ColdCoarse(p) => req[p].result = Ok(Nil)

\* C2, amended: such a call returns, without error, the encoded bytes of the
\* composite with all four quadrants blank (not the empty result), has
\* called no mapblock renderer, and has stored those bytes under the
\* address unless SetTile failed.
C2_ColdCoarse ==
    \A p \in Procs :
        ColdCoarse(p)
        => /\ req[p].result = Ok(Encode(NewNRGBA))
           /\ OpsAt(log[p], "Mapblocks") = {}
           /\ tdb = IF NoFault(log[p])
                      THEN {[Pos |-> req[p].tc, Data |-> Encode(NewNRGBA)]}
                      ELSE {}

\* a zoom-1 tile was requested from an empty tile database and stored
C2_Witness ==
    \E p \in Procs :
        /\ ColdCoarse(p)
        /\ req[p].tc.Zoom = MinZoom
        /\ Has(tdb, req[p].tc)

-----------------------------------------------------------------------------
(* C3: which RenderImage calls store a tile *)

\* C3: no RenderImage call at zoom 13 calls SetTile, whatever the mapblock
\* renderer answers; a RenderImage call at zoom 1..12 that reaches the
\* compose step calls SetTile exactly once, right then, for its own address
\* (every compose step is followed by one SetTile of the same call and
\* address, and no SetTile happens otherwise), also with four empty quadrants.
C3_AsymmetricCaching ==
    \A p \in Procs :
        LET l == log[p]
        IN  /\ \A i \in OpsAt(l, "SetTile") :
                 /\ l[i].tc.Zoom \in MinZoom..(MaxZoom - 1)
                 /\ i > 1
                 /\ l[i - 1].op = "Compose"
                 /\ l[i - 1].tc = l[i].tc
                 /\ l[i - 1].depth = l[i].depth
            /\ \A i \in OpsAt(l, "Compose") :
                 /\ l[i].tc.Zoom \in MinZoom..(MaxZoom - 1)
                 /\ i < Len(l) => l[i + 1].op = "SetTile"
                 /\ i = Len(l) => (req[p].pc = "running" /\ Top(stack[p]).pc = "Compose"
                                   /\ Top(stack[p]).tc = l[i].tc)
            /\ \A i \in OpsAt(l, "Mapblocks") :
                 /\ l[i].tc.Zoom = MaxZoom
                 /\ \A j \in OpsAt(l, "SetTile") : l[j].tc # l[i].tc

\* a zoom-1 call composed four empty quadrants and stored the blank tile;
\* the next call, at zoom 13, got an image from the mapblock renderer and
\* stored nothing
C3_Witness ==
    \E p \in Procs :
        /\ Done(p)
        /\ req[p].entry = "Render"
        /\ prev[p].call.entry = "Render"
        /\ prev[p].call.tc.Zoom = MinZoom
        /\ \E i \in OpsAt(prev[p].log, "SetTile") :
             /\ prev[p].log[i].out = "ok"
             /\ prev[p].log[i].arg = Encode(NewNRGBA)
             /\ prev[p].log[i].tc = prev[p].call.tc
        /\ req[p].tc.Zoom = MaxZoom
        /\ \E i \in OpsAt(log[p], "Mapblocks") : log[p][i].out = "img"
        /\ OpsAt(log[p], "SetTile") = {}
        /\ tdb = req[p].before

-----------------------------------------------------------------------------
(* C4: what validation answers *)

\* caller p has finished a Render call for an address that had no tile
\* stored, and its lookups were answered
FreshRender(p) ==
    /\ Done(p)
    /\ req[p].entry = "Render"
    /\ ~Has(req[p].before, req[p].tc)
    /\ Answered(log[p])

\* C4: for an address with no stored tile, Render fails with "No layer
\* found" when the layer id is not configured, whatever the zoom, and with
\* "Invalid zoom" when the layer is configured and the zoom is outside 1..13;
\* either way no mapblock renderer call is made and nothing is stored.
C4_Validation ==
    \A p \in Procs :
        FreshRender(p)
        => /\ ~Registered(req[p].tc.LayerId)
              => /\ req[p].result = Fail(ErrNoLayer)
                 /\ OpsAt(log[p], "Mapblocks") = {}
                 /\ OpsAt(log[p], "SetTile") = {}
                 /\ tdb = req[p].before
           /\ (Registered(req[p].tc.LayerId) /\ req[p].tc.Zoom \notin MinZoom..MaxZoom)
              => /\ req[p].result = Fail(ErrInvalidZoom)
                 /\ OpsAt(log[p], "Mapblocks") = {}
                 /\ OpsAt(log[p], "SetTile") = {}
                 /\ tdb = req[p].before

\* zoom 0 and then zoom 14 of a configured layer were refused
C4_Witness ==
    \E p \in Procs :
        /\ FreshRender(p)
        /\ Registered(req[p].tc.LayerId)
        /\ req[p].tc.Zoom = MaxZoom + 1
        /\ req[p].result = Fail(ErrInvalidZoom)
        /\ prev[p].call.entry = "Render"
        /\ prev[p].call.tc.Zoom = MinZoom - 1
        /\ prev[p].call.result = Fail(ErrInvalidZoom)

-----------------------------------------------------------------------------
(* C5: when validation happens *)

\* C5 as stated: a Render call refused by the layer check or the zoom check
\* has not read the tile database before.
C5_Original ==
    \A p \in Procs :
        ( /\ Done(p)
          /\ req[p].entry = "Render"
          /\ req[p].result.err \in {ErrNoLayer, ErrInvalidZoom} )
        => OpsAt(log[p], "GetTile") = {}

\* the call (tc, depth) passed the layer check and then the zoom check
\* before position j of the log
Validated(l, j, tc, depth) ==
    \E i \in 1..Len(l) :
        /\ i + 1 < j
        /\ l[i] = Event("LayerCheck", tc, depth, "ok", Nil)
        /\ l[i + 1] = Event("ZoomCheck", tc, depth, "ok", Nil)

\* C5, amended: a fresh RenderImage call checks the layer and then the zoom
\* after the lookups of its own address (Render's, then its own, both
\* misses) and before anything else: every mapblock renderer call, compose
\* step and SetTile of a call, and every RenderImage call for one of its
\* quadrants, comes after both checks passed.  A Render call refused by a
\* check has done nothing but those two lookups of the requested address.
C5_ValidationOrder ==
    \A p \in Procs :
        LET l == log[p]
        IN  /\ \A j \in OpsAt(l, "Mapblocks") \cup OpsAt(l, "Compose") \cup OpsAt(l, "SetTile") :
                 Validated(l, j, l[j].tc, l[j].depth)
            /\ \A j \in OpsAt(l, "RenderImage") :
                 l[j].depth > 1
                 => \E i \in 1..Len(l) :
                        /\ l[i].depth = l[j].depth - 1
                        /\ \E k \in 1..4 : GetZoomedQuadrantsFromTile(l[i].tc)[k] = l[j].tc
                        /\ Validated(l, j, l[i].tc, l[i].depth)
            /\ \A j \in OpsAt(l, "LayerCheck") :
                 /\ j > 1
                 /\ l[j - 1] = Event("GetTile", l[j].tc, l[j].depth, "miss", Nil)
            /\ \A j \in OpsAt(l, "ZoomCheck") :
                 /\ j > 1
                 /\ l[j - 1] = Event("LayerCheck", l[j].tc, l[j].depth, "ok", Nil)
            /\ ( /\ Done(p)
                 /\ req[p].entry = "Render"
                 /\ req[p].result.err \in {ErrNoLayer, ErrInvalidZoom} )
               => /\ \A i \in 1..Len(l) : l[i].tc = req[p].tc
                  /\ OpsAt(l, "GetTile") = {1, 3}
                  /\ l[1].out = "miss" /\ l[3].out = "miss"
                  /\ OpsAt(l, "RenderImage") = {2}
                  /\ OpsAt(l, "LayerCheck") = {4}
                  /\ Len(l) = (IF req[p].result.err = ErrNoLayer THEN 4 ELSE 5)
                  /\ tdb = req[p].before

\* a Render call for a layer id that is not configured was refused after
\* two lookups that found nothing
C5_Witness ==
    \E p \in Procs :
        /\ Done(p)
        /\ req[p].entry = "Render"
        /\ ~Registered(req[p].tc.LayerId)
        /\ req[p].tc.Zoom = MaxZoom + 1
        /\ req[p].result = Fail(ErrNoLayer)
        /\ Len(log[p]) = 4

-----------------------------------------------------------------------------
(* C6: stored tiles that do not decode *)

\* the bytes stored for tc when the call of p began do not decode
Undecodable(p, tc) ==
    /\ Has(req[p].before, tc)
    /\ GetTile(req[p].before, tc).Data.kind # "png"

\* the positions at which the call of p received such a tile from a lookup
MetUndecodable(p) ==
    {i \in OpsAt(log[p], "GetTile") : log[p][i].out = "hit" /\ Undecodable(p, log[p][i].tc)}

\* C6 as stated: a Render call that meets a stored tile that does not decode,
\* at the requested address or at a quadrant it reads, fails with the
\* decode error.
C6_Original ==
    \A p \in Procs :
        (Done(p) /\ req[p].entry = "Render" /\ MetUndecodable(p) # {})
        => req[p].result = Fail(ErrDecode)

\* C6, amended: a call fails with the decode error whenever RenderImage reads
\* a stored tile that does not decode (a quadrant's, or the address of a
\* direct RenderImage call): that read is the last thing the call does, and
\* nothing is rendered or stored afterwards.  A tile that does not decode at
\* the address given to Render is not decoded: Render returns its bytes
\* unchanged, without error.
C6_CorruptCache ==
    \A p \in Procs :
        Done(p)
        => /\ \A i \in MetUndecodable(p) :
                log[p][i].depth >= 1
                => /\ req[p].result = Fail(ErrDecode)
                   /\ Len(log[p]) = i + 1
                   /\ log[p][i + 1] = Event("Decode", log[p][i].tc, log[p][i].depth, "bad", Nil)
                   /\ tdb = req[p].before
           /\ (req[p].entry = "Render" /\ 1 \in MetUndecodable(p))
              => /\ req[p].result = Ok(GetTile(req[p].before, req[p].tc).Data)
                 /\ Len(log[p]) = 1
                 /\ tdb = req[p].before

\* a zoom-11 Render call decoded one stored quadrant and failed on the next
C6_Witness ==
    \E p \in Procs :
        /\ Done(p)
        /\ req[p].entry = "Render"
        /\ req[p].tc.Zoom = FreshChildZoom - 1
        /\ \E i \in OpsAt(log[p], "Decode") : log[p][i].out = "ok"
        /\ \E i \in MetUndecodable(p) : log[p][i].depth = 2
        /\ req[p].result = Fail(ErrDecode)

-----------------------------------------------------------------------------
(* C7: a stored tile requested from Render *)

\* C7: when the tile database holds a tile for the requested address, Render
\* returns exactly its bytes and does nothing else: no mapblock renderer
\* call, no read of a quadrant, no write; whatever the zoom and the layer id.
C7_RenderHit ==
    \A p \in Procs :
        (Done(p) /\ req[p].entry = "Render" /\ Has(req[p].before, req[p].tc)
                 /\ log[p][1].out # "err")
        => /\ req[p].result = Ok(GetTile(req[p].before, req[p].tc).Data)
           /\ log[p] = << Event("GetTile", req[p].tc, 0, "hit", Nil) >>
           /\ tdb = req[p].before

\* a stored tile at zoom 14 of a layer id that is not configured was served
C7_Witness ==
    \E p \in Procs :
        /\ Done(p)
        /\ req[p].entry = "Render"
        /\ req[p].tc.Zoom = MaxZoom + 1
        /\ ~Registered(req[p].tc.LayerId)
        /\ Has(req[p].before, req[p].tc)
        /\ req[p].result = Ok(Encode(StoredImage(14)))

-----------------------------------------------------------------------------
(* C8: how deep a request renders *)

\* C8: a Render call at zoom <= 11 never calls the mapblock renderer and
\* resolves its quadrants with cachedOnly = TRUE; only a call at zoom 12
\* resolves its quadrants (of zoom 13) with cachedOnly = FALSE, calling the
\* mapblock renderer at most once per quadrant, and only for a quadrant that
\* is not stored; a call at zoom 13 calls it at most once.  No call nests
\* RenderImage deeper than the quadrants of the requested tile.
C8_DepthPolicy ==
    \A p \in Procs :
        req[p].entry = "Render"
        => LET l == log[p]
               z == req[p].tc.Zoom
               mb == OpsAt(l, "Mapblocks")
           IN  /\ \A j \in OpsAt(l, "RenderImage") :
                    /\ l[j].depth <= 2
                    /\ l[j].depth = 1 => (l[j].tc = req[p].tc /\ l[j].arg = FALSE)
                    /\ l[j].depth = 2
                       => /\ \E k \in 1..4 : GetZoomedQuadrantsFromTile(req[p].tc)[k] = l[j].tc
                          /\ l[j].arg = (z # FreshChildZoom)
               /\ z \notin {FreshChildZoom, MaxZoom} => mb = {}
               /\ z = MaxZoom => Cardinality(mb) <= 1
               /\ z = FreshChildZoom
                  => /\ Cardinality(mb) <= 4
                     /\ \A i \in mb :
                          /\ l[i].tc.Zoom = MaxZoom
                          /\ l[i].depth = 2
                          /\ ~Has(req[p].before, l[i].tc)
                          /\ \A j \in mb : l[j].tc = l[i].tc => j = i

\* a zoom-11 call resolved four quadrants with cachedOnly = TRUE, then a
\* zoom-12 call had the mapblock renderer render its four quadrants
C8_Witness ==
    \E p \in Procs :
        /\ Done(p)
        /\ req[p].entry = "Render"
        /\ req[p].tc.Zoom = FreshChildZoom
        /\ Cardinality(OpsAt(log[p], "Mapblocks")) = 4
        /\ prev[p].call.entry = "Render"
        /\ prev[p].call.tc.Zoom = FreshChildZoom - 1
        /\ Cardinality({j \in OpsAt(prev[p].log, "RenderImage") :
                           prev[p].log[j].depth = 2 /\ prev[p].log[j].arg = TRUE}) = 4

-----------------------------------------------------------------------------
(* C9: RenderImage with cachedOnly on a tile that is not stored *)

\* C9: RenderImage(tc, TRUE) for an address with no stored tile returns nil
\* and no error, for every zoom and layer id: after the lookup it does
\* nothing (no layer or zoom check, no mapblock renderer call, no quadrant,
\* no write).  This holds for a direct call and for the quadrants a
\* composing call resolves with cachedOnly = TRUE.
C9_CachedOnlyMiss ==
    \A p \in Procs :
        LET l == log[p]
        IN  /\ ( /\ Done(p)
                 /\ req[p].entry = "RenderImage"
                 /\ req[p].cachedOnly
                 /\ ~Has(req[p].before, req[p].tc)
                 /\ Answered(l) )
               => /\ req[p].result = Ok(Nil)
                  /\ l = << CallEvent(Frame(req[p].tc, TRUE), 1),
                            Event("GetTile", req[p].tc, 1, "miss", Nil) >>
                  /\ tdb = req[p].before
            /\ \A i \in OpsAt(l, "RenderImage") :
                 ( /\ l[i].arg = TRUE
                   /\ i + 2 <= Len(l)
                   /\ l[i + 1].out = "miss" )
                 => \/ l[i + 2].op = "RenderImage" /\ l[i + 2].depth = l[i].depth
                    \/ l[i + 2].op = "Compose" /\ l[i + 2].depth = l[i].depth - 1

\* RenderImage(tc, TRUE) at zoom 14 of a layer id that is not configured
\* returned nil without error
C9_Witness ==
    \E p \in Procs :
        /\ Done(p)
        /\ req[p].entry = "RenderImage"
        /\ req[p].cachedOnly
        /\ req[p].tc.Zoom = MaxZoom + 1
        /\ ~Registered(req[p].tc.LayerId)
        /\ ~Has(req[p].before, req[p].tc)
        /\ req[p].result = Ok(Nil)

-----------------------------------------------------------------------------
(* C10: a zoom-11 tile over four stored zoom-12 tiles *)

\* caller p has finished a Render call for a zoom-11 address of a configured
\* layer that was not stored while its four quadrants were, decodably, and
\* its lookups were answered
Warmed(p) ==
    /\ Done(p)
    /\ req[p].entry = "Render"
    /\ req[p].tc.Zoom = FreshChildZoom - 1
    /\ Registered(req[p].tc.LayerId)
    /\ ~Has(req[p].before, req[p].tc)
    /\ \A k \in 1..4 :
         LET q == GetZoomedQuadrantsFromTile(req[p].tc)[k]
         IN  Has(req[p].before, q) /\ GetTile(req[p].before, q).Data.kind = "png"
    /\ Answered(log[p])

\* the image stored for quadrant k when the call of p began
StoredQuadrant(p, k) ==
    GetTile(req[p].before, GetZoomedQuadrantsFromTile(req[p].tc)[k]).Data.img

\* C10: such a call returns the encoded composite whose four quadrants are
\* the resized stored zoom-12 images, each in its place, and hands exactly
\* that to SetTile for the zoom-11 address; the four zoom-12 tiles are read,
\* the mapblock renderer is not called, and no other tile is written or changed.
C10_WarmedPath ==
    \A p \in Procs :
        Warmed(p)
        => LET l == log[p]
               composite == [kind |-> "nrgba",
                             ul |-> Resize(StoredQuadrant(p, 1)),
                             ur |-> Resize(StoredQuadrant(p, 2)),
                             ll |-> Resize(StoredQuadrant(p, 3)),
                             lr |-> Resize(StoredQuadrant(p, 4))]
           IN  /\ req[p].result = Ok(Encode(composite))
               /\ OpsAt(l, "Mapblocks") = {}
               /\ Cardinality({i \in OpsAt(l, "GetTile") : l[i].depth = 2 /\ l[i].out = "hit"}) = 4
               /\ Cardinality(OpsAt(l, "SetTile")) = 1
               /\ \A i \in OpsAt(l, "SetTile") :
                    l[i].tc = req[p].tc /\ l[i].arg = Encode(composite)
               /\ {t \in tdb : t.Pos # req[p].tc} = req[p].before
               /\ NoFault(l) => GetTile(tdb, req[p].tc) = [Pos |-> req[p].tc, Data |-> Encode(composite)]
               /\ ~NoFault(l) => tdb = req[p].before

\* such a call has finished and its composite is stored
C10_Witness ==
    \E p \in Procs :
        /\ Warmed(p)
        /\ Has(tdb, req[p].tc)
        /\ req[p].result.err = NoErr

-----------------------------------------------------------------------------
(* C11: a cache write that fails *)

\* the positions in log l of the SetTile calls that failed
FailedWrites(l) ==
    {i \in OpsAt(l, "SetTile") : l[i].out = "err"}

\* C11: when the SetTile of a composing call (zoom 1..12) fails, the call
\* still returns the composite it handed to SetTile with a nil error: Render
\* returns exactly the encoded composite the write was given, and the store
\* is as it was when the call began.
C11_WriteFailureNotFatal ==
    \A p \in Procs :
        (Done(p) /\ FailedWrites(log[p]) # {})
        => LET l == log[p]
           IN  /\ req[p].entry = "Render"
               /\ req[p].tc.Zoom \in MinZoom..(MaxZoom - 1)
               /\ \A i \in FailedWrites(l) :
                    /\ i = Len(l)
                    /\ l[i].tc = req[p].tc
                    /\ l[i].arg.kind = "png"
                    /\ l[i].arg.img.kind = "nrgba"
                    /\ req[p].result = Ok(l[i].arg)
               /\ tdb = req[p].before

\* a Render call whose SetTile failed has returned bytes of a composite with
\* a rendered quadrant
C11_Witness ==
    \E p \in Procs :
        /\ Done(p)
        /\ FailedWrites(log[p]) # {}
        /\ req[p].result.err = NoErr
        /\ req[p].result.val.kind = "png"
        /\ \E i \in OpsAt(log[p], "Mapblocks") : log[p][i].out = "img"

-----------------------------------------------------------------------------
(* C12: the four quadrants are joined before the write; errors propagate *)

\* the positions before j in log l of the RenderImage calls made at depth d
ChildCalls(l, j, d) ==
    {i \in 1..(j - 1) : l[i].op = "RenderImage" /\ l[i].depth = d}

\* event e ends a successful resolution of address q at depth d: a decoded
\* hit, a cache-only miss, or an answer of the mapblock renderer
Resolved(e, q, d) ==
    /\ e.tc = q
    /\ e.depth = d
    /\ \/ e.op = "Decode" /\ e.out = "ok"
       \/ e.op = "GetTile" /\ e.out = "miss"
       \/ e.op = "Mapblocks" /\ e.out \in {"img", "nil"}

\* the error a failing event makes its call return
ErrorOf(e) ==
    IF e.op = "GetTile" THEN ErrTileDb
    ELSE IF e.op = "Decode" THEN ErrDecode
    ELSE ErrMapblock

\* the positions in log l where the resolution of a quadrant failed
ChildFailures(l) ==
    {i \in DOMAIN l : l[i].depth >= 2 /\ l[i].out \in {"err", "bad"}}

\* C12: a SetTile is preceded by exactly four RenderImage calls one level
\* deeper, one per quadrant of its address in the order UpperLeft,
\* UpperRight, LowerLeft, LowerRight, each resolved successfully before the
\* next begins, with no failure anywhere before the write; and when the
\* resolution of a quadrant fails (GetTile, decoding or the mapblock
\* renderer), that event is the last thing the request does: the request is
\* finished with that same error, no SetTile was made, no quadrant was asked
\* for twice, and the store is as it was.
C12_JoinBeforeWrite ==
    \A p \in Procs :
        LET l == log[p]
        IN  /\ \A j \in OpsAt(l, "SetTile") :
                 LET a == l[j].tc
                     d == l[j].depth + 1
                     q == GetZoomedQuadrantsFromTile(a)
                     asked == ChildCalls(l, j, d)
                 IN  /\ a.Zoom \in MinZoom..(MaxZoom - 1)
                     /\ l[j - 1].op = "Compose" /\ l[j - 1].tc = a
                     /\ Cardinality(asked) = 4
                     /\ \A i \in 1..(j - 1) : l[i].out \notin {"err", "bad", "reject"}
                     /\ \A i \in asked :
                          LET k == Cardinality({h \in asked : h <= i})
                              later == {h \in asked : h > i}
                              nxt == IF later = {} THEN j - 1
                                     ELSE CHOOSE h \in later : \A g \in later : h <= g
                          IN  /\ l[i].tc = q[k]
                              /\ Resolved(l[nxt - 1], q[k], d)
            /\ \A i \in ChildFailures(l) :
                 /\ Done(p)
                 /\ i = Len(l)
                 /\ req[p].result = Fail(ErrorOf(l[i]))
                 /\ OpsAt(l, "SetTile") = {}
                 /\ \A g, h \in OpsAt(l, "RenderImage") : l[g].tc = l[h].tc => g = h
                 /\ tdb = req[p].before

\* after a call that composed and stored a zoom-12 tile, a Render call at
\* zoom 11 has resolved its first quadrant from that tile and has returned
\* the error of the lookup of a later quadrant
C12_Witness ==
    \E p \in Procs :
        /\ Done(p)
        /\ req[p].entry = "Render"
        /\ req[p].tc.Zoom = FreshChildZoom - 1
        /\ \E j \in OpsAt(prev[p].log, "SetTile") : prev[p].log[j].out = "ok"
        /\ \E i \in OpsAt(log[p], "Decode") : log[p][i].depth = 2 /\ log[p][i].out = "ok"
        /\ \E i \in ChildFailures(log[p]) : log[p][i].op = "GetTile"
        /\ req[p].result = Fail(ErrTileDb)

-----------------------------------------------------------------------------
(* C13: the vertical bounds of the volume rendered at zoom 13 *)

\* the configured layer with id id
LayerWithId(id) ==
    CHOOSE ly \in {layers[i] : i \in 1..Len(layers)} : ly.Id = id

\* C13: every volume handed to the mapblock renderer spans, vertically, From
\* to To of the configured layer whose id is the id of the address rendered.
C13_Original ==
    \A p \in Procs :
        \A i \in OpsAt(log[p], "Mapblocks") :
            LET e == log[p][i]
            IN  /\ e.arg.Pos1.Y = LayerWithId(e.tc.LayerId).From
                /\ e.arg.Pos2.Y = LayerWithId(e.tc.LayerId).To

-----------------------------------------------------------------------------
(* C14: what is in each quadrant of a composite *)

\* the raster that the resolution of address q at depth d produced, before
\* position j of the log of caller p: the decoded stored image, the image of
\* the mapblock renderer, or Nil when the quadrant resolved to nothing
ChildRaster(p, j, q, d) ==
    LET l == log[p]
        At_(op, out) == {i \in 1..(j - 1) : /\ l[i].op = op /\ l[i].out = out
                                             /\ l[i].tc = q /\ l[i].depth = d}
    IN  IF At_("Decode", "ok") # {}
          THEN GetTile(req[p].before, q).Data.img
        ELSE IF At_("Mapblocks", "img") # {}
          THEN LET i == CHOOSE i \in At_("Mapblocks", "img") : TRUE
               IN  MapblockImage(l[i].arg.Pos1, l[i].arg.Pos2)
        ELSE Nil

\* the quadrants of a composite: 1 top-left (0,0)-(128,128), 2 top-right
\* (128,0)-(256,128), 3 bottom-left (0,128)-(128,256), 4 bottom-right
QuadrantOf(img, k) ==
    CASE k = 1 -> img.ul
      [] k = 2 -> img.ur
      [] k = 3 -> img.ll
      [] k = 4 -> img.lr

\* C14: in every composite handed to SetTile, quadrant k (top-left,
\* top-right, bottom-left, bottom-right) is blank exactly when the k-th child
\* (UpperLeft, UpperRight, LowerLeft, LowerRight) resolved to nothing, and
\* is otherwise the resized raster of that child; a finished Render call
\* returns those same bytes.
C14_Compositing ==
    \A p \in Procs :
        \A j \in OpsAt(log[p], "SetTile") :
            LET e == log[p][j]
                q == GetZoomedQuadrantsFromTile(e.tc)
            IN  /\ e.arg.kind = "png"
                /\ e.arg.img.kind = "nrgba"
                /\ \A k \in 1..4 :
                     LET r == ChildRaster(p, j, q[k], e.depth + 1)
                     IN  /\ QuadrantOf(e.arg.img, k) = Blank <=> r = Nil
                         /\ r # Nil => QuadrantOf(e.arg.img, k) = Resize(r)
                /\ (Done(p) /\ req[p].entry = "Render") => req[p].result = Ok(e.arg)

\* a finished Render call composed a tile with a blank top-left quadrant, two
\* quadrants from the mapblock renderer and a bottom-right quadrant from a
\* stored tile
C14_Witness ==
    \E p \in Procs :
        /\ Done(p)
        /\ req[p].entry = "Render"
        /\ \E j \in OpsAt(log[p], "SetTile") :
             LET img == log[p][j].arg.img
             IN  /\ img.ul = Blank
                 /\ img.ur.kind = "resized" /\ img.ur.of.kind = "mapblocks"
                 /\ img.ll.kind = "resized" /\ img.ll.of.kind = "mapblocks"
                 /\ img.ll # img.ur
                 /\ img.lr.kind = "resized" /\ img.lr.of.kind = "stored"

-----------------------------------------------------------------------------
(* C15: two Render calls at once for one address *)

\* caller p is in, or has finished, a Render call for a zoom 1..12 address of
\* a configured layer that found no tile stored
ColdRender(p) ==
    /\ req[p].entry = "Render"
    /\ req[p].tc.Zoom \in MinZoom..(MaxZoom - 1)
    /\ Registered(req[p].tc.LayerId)
    /\ \E i \in OpsAt(log[p], "GetTile") : log[p][i].depth = 0 /\ log[p][i].out = "miss"

\* nothing failed in log l: no collaborator, no decoding
Clean(l) == \A i \in 1..Len(l) : l[i].out \notin {"err", "bad"}

\* the positions in log l of the successful SetTile calls
Writes(l) == {i \in OpsAt(l, "SetTile") : l[i].out = "ok"}

\* a call in progress can take its next step whatever the other caller does,
\* and two finished cold calls in which nothing failed have both returned
\* bytes, which are the bytes the call wrote if it wrote (a call whose second
\* lookup, in RenderImage, finds the tile the other has written meanwhile
\* writes nothing), with at least one of them having written, one entry
\* stored for the address, holding what one of them returned, and every
\* other entry as it was
C15_BothComplete ==
    /\ \A p \in Procs :
         req[p].pc = "running"
         => ENABLED (RenderImageGetTile(p) \/ RenderMapblocks(p) \/ ComposeAndStore(p))
    /\ \A p, q \in Procs :
         (/\ p # q
          /\ Done(p) /\ ColdRender(p) /\ Clean(log[p])
          /\ Done(q) /\ ColdRender(q) /\ Clean(log[q]))
         => /\ req[p].tc = req[q].tc
            /\ req[p].result.err = NoErr /\ req[p].result.val.kind = "png"
            /\ \A i \in Writes(log[p]) : req[p].result = Ok(log[p][i].arg)
            /\ Cardinality(Writes(log[p])) <= 1
            /\ Writes(log[p]) # {} \/ Writes(log[q]) # {}
            /\ Cardinality({t \in tdb : t.Pos = req[p].tc}) = 1
            /\ GetTile(tdb, req[p].tc).Data \in {req[p].result.val, req[q].result.val}
            /\ {t \in tdb : t.Pos # req[p].tc} = {t \in req[p].before : t.Pos # req[p].tc}

\* the SetTile events a step adds to the log of caller p
NewWrites(p) ==
    {i \in (Len(log[p]) + 1)..Len(log'[p]) : log'[p][i].op = "SetTile"}

\* a step that makes a successful SetTile leaves exactly the tile written
\* under its address, replacing what was stored there, and nothing else
\* changes the store
C15_Overwrite ==
    /\ \A p \in Procs :
         \A i \in NewWrites(p) :
             LET e == log'[p][i]
             IN  tdb' = IF e.out = "ok"
                          THEN {t \in tdb : t.Pos # e.tc} \cup {[Pos |-> e.tc, Data |-> e.arg]}
                          ELSE tdb
    /\ (\A p \in Procs : NewWrites(p) = {}) => tdb' = tdb

\* C15: with two Render calls for one cold zoom 1..12 address running at
\* once, each call can always go on until it has returned; when nothing
\* failed both have returned bytes; and the address holds a single entry,
\* which after every write is the one just written.
C15_ConcurrentRenders ==
    []C15_BothComplete /\ [][C15_Overwrite]_vars

\* both callers found the zoom-12 address missing, both called the mapblock
\* renderer for its four quadrants, both wrote, what they wrote differs, and
\* the store holds one of the two
C15_Witness ==
    \E p, q \in Procs :
        /\ p # q
        /\ Done(p) /\ ColdRender(p) /\ Done(q) /\ ColdRender(q)
        /\ req[p].tc.Zoom = FreshChildZoom
        /\ Cardinality(OpsAt(log[p], "Mapblocks")) = 4
        /\ Cardinality(OpsAt(log[q], "Mapblocks")) = 4
        /\ Writes(log[p]) # {} /\ Writes(log[q]) # {}
        /\ req[p].result # req[q].result
        /\ GetTile(tdb, req[p].tc).Data = req[q].result.val

-----------------------------------------------------------------------------
(* C16: every call returns; the nesting of RenderImage calls is bounded *)

\* what a finished call holds: an error, nothing, or bytes (Render) or an
\* image (RenderImage)
Outcome(p) ==
    \/ req[p].result.err # NoErr /\ req[p].result.val = Nil
    \/ req[p].result.err = NoErr /\ req[p].result.val = Nil
    \/ /\ req[p].result.err = NoErr
       /\ req[p].result.val.kind \in
            IF req[p].entry = "Render" THEN {"png", "garbage"}
            ELSE {"nrgba", "stored", "mapblocks"}

\* a call in progress has a next step (its collaborators answering), has
\* nested at most as many RenderImage calls as there are zoom levels below
\* the first, and has logged at most five events for each of at most five
\* RenderImage calls and two for composing and storing; a finished call has
\* an outcome and an empty stack
C16_Bounded ==
    \A p \in Procs :
        /\ req[p].pc = "running"
           => /\ stack[p] # <<>>
              /\ ENABLED (RenderImageGetTile(p) \/ RenderMapblocks(p) \/ ComposeAndStore(p))
        /\ Len(stack[p]) <= MaxZoom - MinZoom
        /\ Len(log[p]) <= 5 * (1 + 4) + 2
        /\ Done(p) => stack[p] = <<>> /\ Outcome(p)

\* every step of a call in progress adds to its log
C16_Progress ==
    \A p \in Procs :
        (req[p].pc = "running" /\ <<req[p], stack[p], log[p]>>' # <<req[p], stack[p], log[p]>>)
        => /\ Len(log'[p]) > Len(log[p])
           /\ SubSeq(log'[p], 1, Len(log[p])) = log[p]

\* C16: a call in progress can always take a step, each step lengthens its
\* log, and the log never exceeds 27 events, so every call returns, with
\* bytes or an image, nothing, or an error; and the RenderImage calls of one
\* request are never nested deeper than 12.
C16_Terminates ==
    []C16_Bounded /\ [][C16_Progress]_vars

\* a Render call has returned bytes after the longest run there is: five
\* RenderImage calls, two deep, four of them answered by the mapblock renderer
C16_Witness ==
    \E p \in Procs :
        /\ Done(p)
        /\ req[p].entry = "Render"
        /\ req[p].result.err = NoErr
        /\ Len(log[p]) = 5 * (1 + 4) + 2
        /\ \E i \in 1..Len(log[p]) : log[p][i].depth = 2

-----------------------------------------------------------------------------
(* C17: how the store evolves under calls made one after the other *)

\* the zoom-13 entries of a store
LeafTiles(db) == {t \in db : t.Pos.Zoom = MaxZoom}

\* a step keeps every entry as it is, adds or removes no zoom-13 entry, and
\* leaves at most one entry per address
C17_Step ==
    /\ tdb \subseteq tdb'
    /\ LeafTiles(tdb') = LeafTiles(tdb)
    /\ \A s, t \in tdb' : s.Pos = t.Pos => s = t

\* a finished Render call for an address that was stored, whose lookup was
\* answered, has done that one lookup and nothing else, and left the store
\* as it was
C17_HitDoesNotWrite ==
    \A p \in Procs :
        (/\ Done(p)
         /\ req[p].entry = "Render"
         /\ Has(req[p].before, req[p].tc)
         /\ Answered(log[p]))
        => /\ Len(log[p]) = 1
           /\ log[p][1].op = "GetTile" /\ log[p][1].out = "hit"
           /\ tdb = req[p].before

\* C17: under calls made one after the other, no step removes an entry or
\* changes the bytes of one, no step adds a zoom-13 entry (so a store that
\* starts without any never has one), and a request for a stored address
\* reads it and writes nothing.
C17_CacheEvolution ==
    [][C17_Step]_vars /\ []C17_HitDoesNotWrite

\* starting from an empty store, a Render call composed and stored a zoom-12
\* tile; a second Render call for it has returned the stored bytes and the
\* store still holds that one entry, unchanged
C17_Witness ==
    \E p \in Procs :
        /\ RenderedTwice(p)
        /\ prev[p].call.before = {}
        /\ req[p].tc.Zoom = FreshChildZoom
        /\ \E j \in OpsAt(prev[p].log, "SetTile") :
             /\ prev[p].log[j].out = "ok"
             /\ tdb = {[Pos |-> req[p].tc, Data |-> prev[p].log[j].arg]}
             /\ req[p].result = Ok(prev[p].log[j].arg)
        /\ OpsAt(log[p], "SetTile") = {}
        /\ LeafTiles(tdb) = {}

-----------------------------------------------------------------------------
(* C18: what one Render call writes *)

\* address d lies below address tc: it is a quadrant of tc, or of a quadrant
\* of tc, and so on (a quadrant of (x, y) is (2x or 2x+1, 2y or 2y+1))
Below(d, tc) ==
    /\ d.LayerId = tc.LayerId
    /\ d.Zoom > tc.Zoom
    /\ d.X \div 2^(d.Zoom - tc.Zoom) = tc.X
    /\ d.Y \div 2^(d.Zoom - tc.Zoom) = tc.Y

\* C18: a Render call, in progress or finished, has made at most one SetTile,
\* for the requested address; every entry under another address is as it was
\* when the call began, so no entry of a quadrant or deeper descendant was
\* created or changed, and at most one entry was added.
C18_WriteFootprint ==
    \A p \in Procs :
        req[p].entry = "Render"
        => LET l == log[p]
               tc == req[p].tc
           IN  /\ Cardinality(OpsAt(l, "SetTile")) <= 1
               /\ \A j \in OpsAt(l, "SetTile") : l[j].tc = tc
               /\ {t \in tdb : t.Pos # tc} = {t \in req[p].before : t.Pos # tc}
               /\ Cardinality(tdb \ req[p].before) <= 1
               /\ \A t \in tdb \cup req[p].before :
                    Below(t.Pos, tc) => t \in tdb /\ t \in req[p].before

\* a Render call for a zoom-11 address has read its four quadrants, one of
\* them stored, and has stored its composite: the one entry it added
C18_Witness ==
    \E p \in Procs :
        /\ Done(p)
        /\ req[p].entry = "Render"
        /\ req[p].tc.Zoom = FreshChildZoom - 1
        /\ Cardinality({i \in OpsAt(log[p], "GetTile") : log[p][i].depth = 2}) = 4
        /\ \E i \in OpsAt(log[p], "GetTile") : log[p][i].depth = 2 /\ log[p][i].out = "hit"
        /\ \E i \in OpsAt(log[p], "GetTile") : log[p][i].depth = 2 /\ log[p][i].out = "miss"
        /\ Writes(log[p]) # {}
        /\ tdb \ req[p].before = {GetTile(tdb, req[p].tc)}
        /\ \A k \in 1..4 : ~Has(req[p].before, GetZoomedQuadrantsFromTile(req[p].tc)[k])
                            => ~Has(tdb, GetZoomedQuadrantsFromTile(req[p].tc)[k])

====
